---- MODULE Spec2Model ----
(***************************************************************************)
(* Model of serial_windows.go: the Windows implementation of SerialPort.   *)
(*                                                                         *)
(* The platform is a table of native handles.  A handle value is live from *)
(* the CreateFile that returns it to the CloseHandle that releases it, and *)
(* the platform may hand a released value out again.  Every native call on *)
(* a handle that is not live fails; a native call on a live handle         *)
(* succeeds or fails as the platform decides (the device may be unplugged  *)
(* at any time), so its outcome is an input of the action that makes it.   *)
(*                                                                         *)
(* A SerialPort object holds nothing but the handle value (lines 25-27);   *)
(* it has no open/closed flag, and Close does not change the field.        *)
(***************************************************************************)
EXTENDS Integers, Sequences, FiniteSets, TLC

(***************************************************************************)
(* Bounds of the model.                                                    *)
(***************************************************************************)
MaxHandle == 1      \* native handle values the platform hands out: 1..MaxHandle
MaxPorts  == 2      \* SerialPort objects the program creates
MaxCount  == 1      \* longest buffer passed to Read and Write
MaxBreak  == 1      \* longest break time passed to SendBreak, in clock ticks
MaxValues == 3      \* most values under the registry key SERIALCOMM

Handles == 1..MaxHandle
Ports   == 1..MaxPorts

NoHandle == 0
NoPort   == 0

(***************************************************************************)
(* Errors.  A SerialPortError carries one of the package's codes; an Errno *)
(* is a platform error passed through unchanged.                           *)
(***************************************************************************)
Nil == [type |-> "nil", code |-> "nil"]

SerialPortError(code) == [type |-> "SerialPortError", code |-> code]

Errno(code) == [type |-> "Errno", code |-> code]

ERROR_PORT_BUSY           == "ERROR_PORT_BUSY"
ERROR_PORT_NOT_FOUND      == "ERROR_PORT_NOT_FOUND"
ERROR_INVALID_SERIAL_PORT == "ERROR_INVALID_SERIAL_PORT"

ERROR_ENUMERATING_PORTS == "ERROR_ENUMERATING_PORTS"

ERROR_ACCESS_DENIED  == "ERROR_ACCESS_DENIED"
ERROR_FILE_NOT_FOUND == "ERROR_FILE_NOT_FOUND"
ERROR_GEN_FAILURE    == "ERROR_GEN_FAILURE"
ERROR_INVALID_HANDLE == "ERROR_INVALID_HANDLE"
EINVAL               == "EINVAL"

(***************************************************************************)
(* Fixed-width integers.  A uint32 is kept as its two 16-bit halves, so    *)
(* that 0xFFFFFFFF and the truncation of a wider int are representable.    *)
(***************************************************************************)
U32(x) == [hi |-> (x \div 65536) % 65536, lo |-> x % 65536]

Byte(x) == x % 256

RECURSIVE BitAnd(_, _)
BitAnd(a, b) ==
    IF a = 0 \/ b = 0 THEN 0
    ELSE (a % 2) * (b % 2) + 2 * BitAnd(a \div 2, b \div 2)

\* f | m
BitOr(f, m) == f + m - BitAnd(f, m)

\* f &^ m, the effect of  f &= ^uint32(m)
AndNot(f, m) == f - BitAnd(f, m)

(***************************************************************************)
(* The flag constants of the control record (lines 113-132).               *)
(***************************************************************************)
DCB_BINARY                == 1
DCB_PARITY                == 2
DCB_OUT_X_CTS_FLOW        == 4
DCB_OUT_X_DSR_FLOW        == 8
DCB_DTR_CONTROL_ENABLE    == 16
DCB_DTR_CONTROL_HANDSHAKE == 32
DCB_DSR_SENSITIVITY       == 64
DCB_TX_CONTINUE_ON_XOFF   == 128
DCB_OUT_X                 == 256
DCB_IN_X                  == 512
DCB_ERROR_CHAR            == 1024
DCB_NULL                  == 2048
DCB_RTS_CONTROL_ENABLE    == 4096
DCB_RTS_CONTROL_HANDSHAKE == 8192
DCB_RTS_CONTROL_TOGGLE    == 12288
DCB_ABORT_ON_ERROR        == 16384

\* the two-bit fields fDtrControl and fRtsControl of the flag word
DtrField(f) == BitAnd(f, DCB_DTR_CONTROL_ENABLE + DCB_DTR_CONTROL_HANDSHAKE)

RtsField(f) == BitAnd(f, DCB_RTS_CONTROL_TOGGLE)

(***************************************************************************)
(* The control record DCB (lines 134-167) and COMMTIMEOUTS (169-175).      *)
(* The reserved fields and ErrorChar, EofChar, EvtChar are never written   *)
(* by the package and are left out.                                        *)
(***************************************************************************)
DCBSize == 28

\* the value of  DCB{}
ZeroDCB ==
    [DCBlength |-> 0, BaudRate |-> U32(0), Flags |-> 0, XonLim |-> 0,
     XoffLim |-> 0, ByteSize |-> 0, Parity |-> 0, StopBits |-> 0,
     XonChar |-> 0, XoffChar |-> 0]

\* a record a device can hold when it is opened, with flag word f
DeviceDCB(f) ==
    [ZeroDCB EXCEPT !.DCBlength = DCBSize, !.BaudRate = U32(1200),
                    !.Flags = f, !.ByteSize = 5, !.Parity = 2]

\* the flag words a device may hold before it is opened: the plain default,
\* and one left by an earlier user with both handshakes, the flow-control
\* gates and the error flags on
InitFlags ==
    { DCB_BINARY,
      DCB_BINARY + DCB_PARITY + DCB_OUT_X_CTS_FLOW + DCB_OUT_X_DSR_FLOW
        + DCB_DTR_CONTROL_HANDSHAKE + DCB_DSR_SENSITIVITY + DCB_OUT_X + DCB_IN_X
        + DCB_ERROR_CHAR + DCB_NULL + DCB_RTS_CONTROL_HANDSHAKE
        + DCB_ABORT_ON_ERROR }

ZeroTimeouts ==
    [ReadIntervalTimeout |-> U32(0), ReadTotalTimeoutMultiplier |-> U32(0),
     ReadTotalTimeoutConstant |-> U32(0), WriteTotalTimeoutMultiplier |-> U32(0),
     WriteTotalTimeoutConstant |-> U32(0)]

\* OpenTimeouts with the two sentinels left at zero
OpenTimeouts_NoSentinel ==
    [ReadIntervalTimeout |-> U32(0), ReadTotalTimeoutMultiplier |-> U32(0),
     ReadTotalTimeoutConstant |-> U32(1000), WriteTotalTimeoutMultiplier |-> U32(0),
     WriteTotalTimeoutConstant |-> U32(0)]

\* the timeouts OpenPort sets (lines 279-285); 0xFFFFFFFF = U32(-1)
OpenTimeouts ==
    [ReadIntervalTimeout |-> U32(-1), ReadTotalTimeoutMultiplier |-> U32(-1),
     ReadTotalTimeoutConstant |-> U32(1000), WriteTotalTimeoutMultiplier |-> U32(0),
     WriteTotalTimeoutConstant |-> U32(0)]

(***************************************************************************)
(* Mode: the four int fields of the caller's line configuration.  The set  *)
(* holds the all-default mode, an ordinary one (115200 7O2), and one whose *)
(* DataBits, StopBits and Parity do not fit the record's byte fields.      *)
(***************************************************************************)
Modes ==
    { [BaudRate |-> 0, DataBits |-> 0, StopBits |-> 0, Parity |-> 0],
      [BaudRate |-> 115200, DataBits |-> 7, StopBits |-> 2, Parity |-> 1],
      [BaudRate |-> 115200, DataBits |-> 263, StopBits |-> 258, Parity |-> 257] }

NoMode == [BaudRate |-> 0, DataBits |-> 0, StopBits |-> 0, Parity |-> -1]

(***************************************************************************)
(* Port names, as sequences of character codes: "COM1", the one serial     *)
(* device of the machine, and a name with an embedded NUL, which           *)
(* UTF16PtrFromString rejects.                                             *)
(***************************************************************************)
Names == { <<67, 79, 77, 49>>, <<67, 0, 77>> }

HasNUL(s) == \E i \in 1..Len(s) : s[i] = 0

\* portName = "\\\\.\\" + portName  (line 223)
DevicePath(name) == <<92, 92, 46, 92>> \o name

NoDev == <<>>

(***************************************************************************)
(* State.                                                                  *)
(*   live, dev, dcb, tmo  the platform: the live handle values and, for    *)
(*                        each, the device it opens and the device's       *)
(*                        control and timeout records                      *)
(*   port                 the SerialPort objects: port[p].handle           *)
(*   pc, loc              where the call in progress on a port stands, and *)
(*                        its local variables                              *)
(*   released             history: CloseHandle has been invoked through    *)
(*                        this port since it was opened                    *)
(*   last                 history: the step taken last, the native calls   *)
(*                        it made and what it returned (done: the call     *)
(*                        returned to its caller in this step)             *)
(***************************************************************************)
VARIABLES live, dev, dcb, tmo, port, pc, loc, released, last

vars == <<live, dev, dcb, tmo, port, pc, loc, released, last>>

World == [live |-> live, dev |-> dev, dcb |-> dcb, tmo |-> tmo]

NoLocals == [params |-> ZeroDCB, len |-> 0, breakTime |-> 0, elapsed |-> 0]

\* one native call on a handle in the history: the function, the handle
\* value it was given, whether that value was a live handle then, and
\* whether the call succeeded
Call(fn, w, h, ok) ==
    [fn |-> fn, h |-> h, live |-> h \in w.live, ok |-> ok,
     errno |-> IF ok THEN "" ELSE IF h \in w.live THEN ERROR_GEN_FAILURE
                                  ELSE ERROR_INVALID_HANDLE]

\* CreateFile in the history: the value it returned, or the error
CreateCall(h, errno) ==
    [fn |-> "CreateFile", h |-> h, live |-> FALSE, ok |-> h # NoHandle,
     errno |-> errno]

Event(op, p, h, done, n, err, calls, mode) ==
    [op |-> op, port |-> p, h |-> h, done |-> done, n |-> n, err |-> err,
     calls |-> calls, mode |-> mode, slept |-> 0,
     stale |-> IF p = NoPort THEN FALSE ELSE released[p]]

(***************************************************************************)
(* The platform's native calls.                                            *)
(***************************************************************************)
\* a native call on handle h succeeds only on a live handle, and then only
\* if the platform (input c) lets it
CallOK(w, h, c) == h \in w.live /\ c

\* CallErr with the error lost
CallErr_Nil(w, h) == Nil

\* the error of a native call on h that failed
CallErr(w, h) ==
    IF h \in w.live THEN Errno(ERROR_GEN_FAILURE) ELSE Errno(ERROR_INVALID_HANDLE)

CloseHandle(w, h) ==
    IF h \in w.live
    THEN [live |-> w.live \ {h},
          dev  |-> [w.dev EXCEPT ![h] = NoDev],
          dcb  |-> [w.dcb EXCEPT ![h] = ZeroDCB],
          tmo  |-> [w.tmo EXCEPT ![h] = ZeroTimeouts]]
    ELSE w

\* CreateFile succeeded on device path d and returned the unused value h; the
\* device holds control record d0
CreateFile(w, h, d, d0) ==
    [live |-> w.live \cup {h},
     dev  |-> [w.dev EXCEPT ![h] = d],
     dcb  |-> [w.dcb EXCEPT ![h] = d0],
     tmo  |-> [w.tmo EXCEPT ![h] = ZeroTimeouts]]

SetCommState(w, h, params) == [w EXCEPT !.dcb[h] = params]

SetCommTimeouts(w, h, timeouts) == [w EXCEPT !.tmo[h] = timeouts]

(***************************************************************************)
(* Close (lines 62-64): CloseHandle on the port's handle value, whatever   *)
(* has happened to that value since.                                       *)
(***************************************************************************)
\* the run of port.Close() from world w: the world after, and the call made
PortClose(w, h) ==
    [w |-> CloseHandle(w, h), calls |-> <<Call("CloseHandle", w, h, h \in w.live)>>,
     err |-> IF h \in w.live THEN Nil ELSE Errno(ERROR_INVALID_HANDLE)]

(***************************************************************************)
(* SetMode (lines 197-220).                                                *)
(***************************************************************************)
\* ApplyMode without the default of 8 data bits
ApplyMode_NoDefault(params, mode) ==
    [params EXCEPT
       !.BaudRate = IF mode.BaudRate = 0 THEN U32(9600) ELSE U32(mode.BaudRate),
       !.ByteSize = Byte(mode.DataBits),
       !.StopBits = Byte(mode.StopBits),
       !.Parity   = Byte(mode.Parity)]

\* ApplyMode on a fresh record: the flags and the XON/XOFF settings of the
\* fetched one are lost
ApplyMode_Fresh(params, mode) ==
    [params EXCEPT
       !.BaudRate = IF mode.BaudRate = 0 THEN U32(9600) ELSE U32(mode.BaudRate),
       !.ByteSize = IF mode.DataBits = 0 THEN 8 ELSE Byte(mode.DataBits),
       !.StopBits = Byte(mode.StopBits),
       !.Parity   = Byte(mode.Parity),
       !.Flags = 0, !.XonLim = 0, !.XoffLim = 0, !.XonChar = 0, !.XoffChar = 0]

\* lines 203-214: the four fields SetMode overwrites in the fetched record
ApplyMode(params, mode) ==
    [params EXCEPT
       !.BaudRate = IF mode.BaudRate = 0 THEN U32(9600) ELSE U32(mode.BaudRate),
       !.ByteSize = IF mode.DataBits = 0 THEN 8 ELSE Byte(mode.DataBits),
       !.StopBits = Byte(mode.StopBits),
       !.Parity   = Byte(mode.Parity)]

\* SetModeError with another code of the package
SetModeError_Busy == SerialPortError(ERROR_PORT_BUSY)

\* the error SetMode returns when GetCommState or SetCommState fails
SetModeError == SerialPortError(ERROR_INVALID_SERIAL_PORT)

\* the run of port.SetMode(mode) from world w; c[1], c[2] are the platform's
\* answers to GetCommState and SetCommState
SetModeRun(w, h, mode, c) ==
    LET g == CallOK(w, h, c[1])
        params == ApplyMode(w.dcb[h], mode)
        s == CallOK(w, h, c[2])
        cl == PortClose(w, h)
    IN  IF ~g
        THEN [w |-> cl.w, err |-> SetModeError,
              calls |-> <<Call("GetCommState", w, h, FALSE)>> \o cl.calls]
        ELSE IF ~s
        THEN [w |-> cl.w, err |-> SetModeError,
              calls |-> <<Call("GetCommState", w, h, TRUE),
                          Call("SetCommState", w, h, FALSE)>> \o cl.calls]
        ELSE [w |-> SetCommState(w, h, params), err |-> Nil,
              calls |-> <<Call("GetCommState", w, h, TRUE),
                          Call("SetCommState", w, h, TRUE)>>]

(***************************************************************************)
(* OpenPort (lines 222-292).                                               *)
(***************************************************************************)
\* OpenError with the two cases exchanged
OpenError_Swapped(err) ==
    IF err = ERROR_ACCESS_DENIED THEN SerialPortError(ERROR_PORT_NOT_FOUND)
    ELSE IF err = ERROR_FILE_NOT_FOUND THEN SerialPortError(ERROR_PORT_BUSY)
    ELSE Errno(err)

\* lines 235-243: the error returned when CreateFile fails with err
OpenError(err) ==
    IF err = ERROR_ACCESS_DENIED THEN SerialPortError(ERROR_PORT_BUSY)
    ELSE IF err = ERROR_FILE_NOT_FOUND THEN SerialPortError(ERROR_PORT_NOT_FOUND)
    ELSE Errno(err)

\* the platform errors CreateFile may fail with
OpenFailures == {ERROR_ACCESS_DENIED, ERROR_FILE_NOT_FOUND, ERROR_GEN_FAILURE}

\* lines 260-272: the flag policy laid over the fetched record
Overlay(params) ==
    LET f1 == BitOr(params.Flags, DCB_RTS_CONTROL_ENABLE + DCB_DTR_CONTROL_ENABLE)
        f2 == AndNot(f1, DCB_OUT_X_CTS_FLOW)
        f3 == AndNot(f2, DCB_OUT_X_DSR_FLOW)
        f4 == AndNot(f3, DCB_DSR_SENSITIVITY)
        f5 == BitOr(f4, DCB_TX_CONTINUE_ON_XOFF)
        f6 == AndNot(f5, DCB_IN_X + DCB_OUT_X)
        f7 == AndNot(f6, DCB_ERROR_CHAR)
        f8 == AndNot(f7, DCB_NULL)
        f9 == AndNot(f8, DCB_ABORT_ON_ERROR)
    IN  [params EXCEPT !.Flags = f9, !.XonLim = 2048, !.XoffLim = 512,
                       !.XonChar = 17, !.XoffChar = 19]

\* the error OpenPort returns when a configuration step fails
OpenConfigError == SerialPortError(ERROR_INVALID_SERIAL_PORT)

\* OpenFail without the port.Close(): the handle is left open
OpenFail_NoClose(w, h, calls) == [w |-> w, err |-> OpenConfigError, calls |-> calls]

\* OpenPort gives up: the handle is closed and the error returned
OpenFail(w, h, calls) ==
    [w |-> CloseHandle(w, h), err |-> OpenConfigError,
     calls |-> calls \o PortClose(w, h).calls]

\* lines 278-291: the timeouts are set on the handle, whose record is
\* already written (world w)
OpenTimeoutsRun(w, h, c, calls) ==
    IF ~CallOK(w, h, c[5])
    THEN OpenFail(w, h, calls \o <<Call("SetCommTimeouts", w, h, FALSE)>>)
    ELSE [w |-> SetCommTimeouts(w, h, OpenTimeouts), err |-> Nil,
          calls |-> calls \o <<Call("SetCommTimeouts", w, h, TRUE)>>]

\* lines 250-276: sm is the run of port.SetMode(mode); then the record is
\* fetched, overlaid and written back
OpenOverlayRun(sm, h, c) ==
    IF sm.err # Nil THEN OpenFail(sm.w, h, sm.calls)
    ELSE IF ~CallOK(sm.w, h, c[3])
    THEN OpenFail(sm.w, h, sm.calls \o <<Call("GetCommState", sm.w, h, FALSE)>>)
    ELSE IF ~CallOK(sm.w, h, c[4])
    THEN OpenFail(sm.w, h, sm.calls \o <<Call("GetCommState", sm.w, h, TRUE),
                                         Call("SetCommState", sm.w, h, FALSE)>>)
    ELSE OpenTimeoutsRun(SetCommState(sm.w, h, Overlay(sm.w.dcb[h])), h, c,
                         sm.calls \o <<Call("GetCommState", sm.w, h, TRUE),
                                       Call("SetCommState", sm.w, h, TRUE)>>)

\* lines 249-291: the configuration of the handle h that CreateFile returned;
\* c[1..5] are the platform's answers to SetMode's GetCommState and
\* SetCommState, to GetCommState, SetCommState and SetCommTimeouts
OpenConfigRun(w, h, mode, c) == OpenOverlayRun(SetModeRun(w, h, mode, c), h, c)

\* the platform's answers to n native calls of which each is made only if the
\* one before succeeded: all succeed, or the k-th is the first to fail
Answers(n) == { [i \in 1..n |-> i # k] : k \in 0..n }

\* the device behind path d is held by a live handle (it is opened with no
\* sharing, line 231)
Held(d) == \E h \in live : dev[h] = d

SetWorld(w) ==
    /\ live' = w.live
    /\ dev' = w.dev
    /\ dcb' = w.dcb
    /\ tmo' = w.tmo

\* lines 224-227: the name cannot be converted; nothing is opened
OpenPortBadName(name, mode) ==
    /\ HasNUL(name)
    /\ last' = Event("OpenPort", NoPort, NoHandle, TRUE, 0, Errno(EINVAL), <<>>, NoMode)
    /\ UNCHANGED <<live, dev, dcb, tmo, port, pc, loc, released>>

\* lines 228-243: CreateFile fails with err
OpenPortNoDevice(name, mode, err) ==
    /\ ~HasNUL(name)
    /\ last' = Event("OpenPort", NoPort, NoHandle, TRUE, 0, OpenError(err),
                     <<CreateCall(NoHandle, err)>>, NoMode)
    /\ UNCHANGED <<live, dev, dcb, tmo, port, pc, loc, released>>

\* lines 245-292: p is the SerialPort object created at line 245, r the run
\* of its configuration; the port is returned only if that succeeded
OpenPortDone(p, h, mode, r) ==
    /\ SetWorld(r.w)
    /\ IF r.err = Nil
       THEN /\ port' = [port EXCEPT ![p] = [handle |-> h]]
            /\ pc' = [pc EXCEPT ![p] = "idle"]
            /\ released' = [released EXCEPT ![p] = FALSE]
            /\ last' = Event("OpenPort", p, h, TRUE, 0, Nil,
                             <<CreateCall(h, "")>> \o r.calls, mode)
       ELSE /\ UNCHANGED <<port, pc, released>>
            /\ last' = Event("OpenPort", NoPort, h, TRUE, 0, r.err,
                             <<CreateCall(h, "")>> \o r.calls, NoMode)
    /\ UNCHANGED loc

\* lines 228-292: CreateFile returns h, and the handle is configured; the
\* SerialPort object is the next one not yet in use
OpenPortDevice(p, name, mode, h, f, c) ==
    /\ ~HasNUL(name)
    /\ pc[p] = "none"
    /\ \A q \in Ports : q < p => pc[q] # "none"
    /\ h \notin live
    /\ ~Held(DevicePath(name))
    /\ OpenPortDone(p, h, mode,
         OpenConfigRun(CreateFile(World, h, DevicePath(name), DeviceDCB(f)),
                       h, mode, c))

OpenPort ==
    \E name \in Names, mode \in Modes :
        \/ OpenPortBadName(name, mode)
        \/ \E err \in OpenFailures : OpenPortNoDevice(name, mode, err)
        \/ \E p \in Ports, h \in Handles, f \in InitFlags, c \in Answers(5) :
               OpenPortDevice(p, name, mode, h, f, c)

(***************************************************************************)
(* The calls a caller makes on a port it holds.  The package starts no     *)
(* thread of its own and every call blocks: one calling thread makes the   *)
(* Read, Write, SetMode and SendBreak calls, one at a time (Free).  Close, *)
(* and the opening of another port, may also come from another context     *)
(* while a Read or a SendBreak is in progress.                             *)
(***************************************************************************)
Exists(p) == pc[p] # "none"

\* the calling thread can start a call on p
Free(p) == pc[p] = "idle" /\ \A q \in Ports : pc[q] \in {"none", "idle"}

H(p) == port[p].handle

\* history: whether the run's calls include a CloseHandle made through p
Releases(calls) == \E i \in 1..Len(calls) : calls[i].fn = "CloseHandle"

Close(p) ==
    /\ Exists(p)
    /\ LET cl == PortClose(World, H(p))
       IN  /\ SetWorld(cl.w)
           /\ last' = Event("Close", p, H(p), TRUE, 0, cl.err, cl.calls, NoMode)
    /\ released' = [released EXCEPT ![p] = TRUE]
    /\ UNCHANGED <<port, pc, loc>>

SetModeDone(p, mode, r) ==
    /\ SetWorld(r.w)
    /\ last' = Event("SetMode", p, H(p), TRUE, 0, r.err, r.calls,
                     IF r.err = Nil THEN mode ELSE NoMode)
    /\ released' = [released EXCEPT ![p] = @ \/ Releases(r.calls)]
    /\ UNCHANGED <<port, pc, loc>>

SetMode(p, mode, c) ==
    /\ Free(p)
    /\ SetModeDone(p, mode, SetModeRun(World, H(p), mode, c))

\* WriteFile in the history, with the length of the buffer it was given and
\* the count it stored in writed
WriteCall(w, h, ok, len, count) ==
    [fn |-> "WriteFile", h |-> h, live |-> h \in w.live, ok |-> ok,
     errno |-> IF ok THEN "" ELSE IF h \in w.live THEN ERROR_GEN_FAILURE
                                  ELSE ERROR_INVALID_HANDLE,
     len |-> len, count |-> count]

\* WriteReturn with the error of WriteFile dropped
WriteReturn_NoError(writed, err) == [n |-> writed, err |-> Nil]

\* line 92: return int(writed), err
WriteReturn(writed, err) == [n |-> writed, err |-> err]

\* lines 89-93: one WriteFile of a buffer of len bytes, of which the platform
\* accepts n; a WriteFile that fails leaves writed at zero
Write(p, len, n, c) ==
    /\ Free(p)
    /\ n <= len
    /\ LET ok == CallOK(World, H(p), c)
           writed == IF ok THEN n ELSE 0
           r == WriteReturn(writed, IF ok THEN Nil ELSE CallErr(World, H(p)))
       IN  last' = Event("Write", p, H(p), TRUE, r.n, r.err,
                         <<WriteCall(World, H(p), ok, len, writed)>>, NoMode)
    /\ UNCHANGED <<live, dev, dcb, tmo, port, pc, loc, released>>

(***************************************************************************)
(* Read (lines 66-87), one step per native read attempt and per probe.     *)
(***************************************************************************)
\* HasData with >= for >
HasData_OrZero(readed) == readed >= 0

\* HasData never true: Read does not return on data
HasData_Never(readed) == FALSE

\* line 73: the attempt's count ends the loop
HasData(readed) == readed > 0

\* ProbeFailed with the error of SetCommState dropped as well
ProbeFailed_Never(g, s) == FALSE

\* lines 81-82: the probe is judged by SetCommState alone; the result of
\* GetCommState (g) is dropped
ProbeFailed(g, s) == ~s

\* lines 67-68: var readed uint32; params := &DCB{}
ReadStart(p, len) ==
    /\ Free(p)
    /\ pc' = [pc EXCEPT ![p] = "read"]
    /\ loc' = [loc EXCEPT ![p] = [NoLocals EXCEPT !.len = len]]
    /\ last' = Event("Read", p, H(p), FALSE, 0, Nil, <<>>, NoMode)
    /\ UNCHANGED <<live, dev, dcb, tmo, port, released>>

\* lines 70-75: one ReadFile; n is the count the platform reports
ReadAttempt(p, n, c) ==
    /\ pc[p] = "read"
    /\ n <= loc[p].len
    /\ LET ok == CallOK(World, H(p), c)
           calls == <<Call("ReadFile", World, H(p), ok)>>
       IN  IF ~ok
           THEN /\ pc' = [pc EXCEPT ![p] = "idle"]
                /\ loc' = [loc EXCEPT ![p] = NoLocals]
                /\ last' = Event("Read", p, H(p), TRUE, 0, CallErr(World, H(p)),
                                 calls, NoMode)
           ELSE IF HasData(n)
           THEN /\ pc' = [pc EXCEPT ![p] = "idle"]
                /\ loc' = [loc EXCEPT ![p] = NoLocals]
                /\ last' = Event("Read", p, H(p), TRUE, n, Nil, calls, NoMode)
           ELSE /\ pc' = [pc EXCEPT ![p] = "probe"]
                /\ loc' = loc
                /\ last' = Event("Read", p, H(p), FALSE, n, Nil, calls, NoMode)
    /\ UNCHANGED <<live, dev, dcb, tmo, port, released>>

\* lines 81-85: the probe; c[1], c[2] are the platform's answers to
\* GetCommState and SetCommState.  A failed GetCommState leaves params as it
\* was: zero, or the record fetched in an earlier iteration.
ReadProbe(p, c) ==
    /\ pc[p] = "probe"
    /\ LET w == World
           h == H(p)
           g == CallOK(w, h, c[1])
           params == IF g THEN w.dcb[h] ELSE loc[p].params
           s == CallOK(w, h, c[2])
           calls == <<Call("GetCommState", w, h, g), Call("SetCommState", w, h, s)>>
           cl == PortClose(w, h)
       IN  IF ProbeFailed(g, s)
           THEN /\ SetWorld(cl.w)
                /\ pc' = [pc EXCEPT ![p] = "idle"]
                /\ loc' = [loc EXCEPT ![p] = NoLocals]
                /\ released' = [released EXCEPT ![p] = TRUE]
                /\ last' = Event("Read", p, h, TRUE, 0, CallErr(w, h),
                                 calls \o cl.calls, NoMode)
           ELSE /\ SetWorld(IF s THEN SetCommState(w, h, params) ELSE w)
                /\ pc' = [pc EXCEPT ![p] = "read"]
                /\ loc' = [loc EXCEPT ![p].params = params]
                /\ released' = released
                /\ last' = Event("Read", p, h, FALSE, 0, Nil, calls, NoMode)
    /\ UNCHANGED port

(***************************************************************************)
(* SendBreak (lines 95-111): set the break, sleep, clear the break.        *)
(* loc[p].elapsed counts the clock ticks since the break was set.          *)
(***************************************************************************)
\* SendBreakError lost: nil is returned
SendBreakError_Nil == Nil

\* the error SendBreak returns when SetCommBreak or ClearCommBreak fails
SendBreakError == SerialPortError(ERROR_INVALID_SERIAL_PORT)

\* SleepOver with the sleep left out
SleepOver_Skipped(elapsed, breakTime) == TRUE

\* line 103: time.Sleep returns once at least the break time has passed
SleepOver(elapsed, breakTime) == elapsed >= breakTime

\* lines 97-100
SendBreakSet(p, breakTime, c) ==
    /\ Free(p)
    /\ LET w == World
           h == H(p)
           ok == CallOK(w, h, c)
           cl == PortClose(w, h)
       IN  IF ~ok
           THEN /\ SetWorld(cl.w)
                /\ released' = [released EXCEPT ![p] = TRUE]
                /\ UNCHANGED <<pc, loc>>
                /\ last' = Event("SendBreak", p, h, TRUE, 0, SendBreakError,
                                 <<Call("SetCommBreak", w, h, FALSE)>> \o cl.calls,
                                 NoMode)
           ELSE /\ pc' = [pc EXCEPT ![p] = "sleep"]
                /\ loc' = [loc EXCEPT ![p] = [NoLocals EXCEPT !.breakTime = breakTime]]
                /\ UNCHANGED <<live, dev, dcb, tmo, released>>
                /\ last' = Event("SendBreak", p, h, FALSE, 0, Nil,
                                 <<Call("SetCommBreak", w, h, TRUE)>>, NoMode)
    /\ UNCHANGED port

\* lines 103-110
SendBreakClear(p, c) ==
    /\ pc[p] = "sleep"
    /\ SleepOver(loc[p].elapsed, loc[p].breakTime)
    /\ LET w == World
           h == H(p)
           ok == CallOK(w, h, c)
           cl == PortClose(w, h)
       IN  IF ~ok
           THEN /\ SetWorld(cl.w)
                /\ released' = [released EXCEPT ![p] = TRUE]
                /\ last' = [Event("SendBreak", p, h, TRUE, 0, SendBreakError,
                                  <<Call("ClearCommBreak", w, h, FALSE)>> \o cl.calls,
                                  NoMode) EXCEPT !.slept = loc[p].elapsed]
           ELSE /\ UNCHANGED <<live, dev, dcb, tmo, released>>
                /\ last' = [Event("SendBreak", p, h, TRUE, 0, Nil,
                                  <<Call("ClearCommBreak", w, h, TRUE)>>, NoMode)
                              EXCEPT !.slept = loc[p].elapsed]
    /\ pc' = [pc EXCEPT ![p] = "idle"]
    /\ loc' = [loc EXCEPT ![p] = NoLocals]
    /\ UNCHANGED port

\* the clock advances by one tick while a SendBreak sleeps
Tick ==
    /\ \E p \in Ports : pc[p] = "sleep" /\ loc[p].elapsed < MaxBreak
    /\ loc' = [p \in Ports |->
                 IF pc[p] = "sleep" /\ loc[p].elapsed < MaxBreak
                 THEN [loc[p] EXCEPT !.elapsed = @ + 1]
                 ELSE loc[p]]
    /\ last' = Event("Tick", NoPort, NoHandle, FALSE, 0, Nil, <<>>, NoMode)
    /\ UNCHANGED <<live, dev, dcb, tmo, port, pc, released>>

(***************************************************************************)
(* GetPortsList (lines 31-60).  It reads the registry and touches no port: *)
(* the values under the key and the platform's answers to the registry     *)
(* calls are its inputs, and the step is recorded in last, with the list   *)
(* returned (nil: the nil slice) and the values the key held.              *)
(***************************************************************************)
\* the data of a registry value, as the UTF-16 code units the platform
\* stores: "COM1" and "COM2" with their terminating NUL, "COM3" stored
\* without one
ValueData == { <<67, 79, 77, 49, 0>>, <<67, 79, 77, 50, 0>>, <<67, 79, 77, 51>> }

\* the values a key may hold
Registries == UNION { [1..k -> ValueData] : k \in 0..MaxValues }

\* line 50: var data [1024]uint16
DataLen == 1024

\* RegEnumValue copies the value's data into the zeroed buffer
Buffer(v) == [i \in 1..DataLen |-> IF i <= Len(v) THEN v[i] ELSE 0]

\* syscall.UTF16ToString: the code units before the first NUL
UTF16ToString(s) ==
    IF HasNUL(s)
    THEN SubSeq(s, 1, (CHOOSE i \in 1..Len(s) :
                          s[i] = 0 /\ \A j \in 1..(i - 1) : s[j] # 0) - 1)
    ELSE s

\* line 57 for each value data: the string stored in the list
ValueText == [v \in ValueData |-> UTF16ToString(Buffer(v))]

\* line 32: "HARDWARE\\DEVICEMAP\\SERIALCOMM\\"
SubKey == <<72, 65, 82, 68, 87, 65, 82, 69, 92, 68, 69, 86, 73, 67, 69, 77,
            65, 80, 92, 83, 69, 82, 73, 65, 76, 67, 79, 77, 77, 92>>

NilList == [nil |-> TRUE, items |-> <<>>]

List(items) == [nil |-> FALSE, items |-> items]

\* a registry call in the history; index is the value index of RegEnumValue
RegCall(fn, index, ok) == [fn |-> fn, index |-> index, ok |-> ok]

\* line 41: the deferred RegCloseKey runs at every return after the open
Deferred(calls) == calls \o <<RegCall("RegCloseKey", 0, TRUE)>>

\* EnumerationFailed returning the list as far as it was filled
EnumerationFailed_Partial(list, calls) ==
    [list |-> list, err |-> SerialPortError(ERROR_ENUMERATING_PORTS),
     calls |-> calls]

\* lines 34, 39, 45, 55: return nil, &SerialPortError{ERROR_ENUMERATING_PORTS}
EnumerationFailed(list, calls) ==
    [list |-> NilList, err |-> SerialPortError(ERROR_ENUMERATING_PORTS),
     calls |-> calls]

\* lines 49-59: the loop from index i on; c[3 + i] is the platform's answer
\* to RegEnumValue at index i
RECURSIVE EnumLoop(_, _, _, _, _)
EnumLoop(values, c, i, list, calls) ==
    IF i >= Len(list.items)
    THEN [list |-> list, err |-> Nil, calls |-> Deferred(calls)]
    ELSE IF ~(c[3 + i] /\ Len(values[i + 1]) <= DataLen)
    THEN EnumerationFailed(list,
             Deferred(calls \o <<RegCall("RegEnumValue", i, FALSE)>>))
    ELSE EnumLoop(values, c, i + 1,
             [list EXCEPT !.items[i + 1] = ValueText[values[i + 1]]],
             calls \o <<RegCall("RegEnumValue", i, TRUE)>>)

\* the run of GetPortsList on a key holding values; c[1], c[2] are the
\* platform's answers to RegOpenKeyEx and RegQueryInfoKey
GetPortsListRun(values, c) ==
    IF HasNUL(SubKey) THEN EnumerationFailed(NilList, <<>>)
    ELSE IF ~c[1]
    THEN EnumerationFailed(NilList, <<RegCall("RegOpenKeyEx", 0, FALSE)>>)
    ELSE IF ~c[2]
    THEN EnumerationFailed(NilList,
             Deferred(<<RegCall("RegOpenKeyEx", 0, TRUE),
                        RegCall("RegQueryInfoKey", 0, FALSE)>>))
    ELSE EnumLoop(values, c, 0, List([i \in 1..Len(values) |-> <<>>]),
                  <<RegCall("RegOpenKeyEx", 0, TRUE),
                    RegCall("RegQueryInfoKey", 0, TRUE)>>)

\* lines 31-60: the whole call; it changes nothing but the history
GetPortsList(values, c) ==
    /\ LET r == GetPortsListRun(values, c)
       IN  last' = [op |-> "GetPortsList", port |-> NoPort, h |-> NoHandle,
                    done |-> TRUE, n |-> 0, err |-> r.err, calls |-> r.calls,
                    mode |-> NoMode, slept |-> 0, stale |-> FALSE,
                    list |-> r.list, values |-> values]
    /\ UNCHANGED <<live, dev, dcb, tmo, port, pc, loc, released>>

(***************************************************************************)
(* The specification.                                                      *)
(***************************************************************************)
Init ==
    /\ live = {}
    /\ dev = [h \in Handles |-> NoDev]
    /\ dcb = [h \in Handles |-> ZeroDCB]
    /\ tmo = [h \in Handles |-> ZeroTimeouts]
    /\ port = [p \in Ports |-> [handle |-> NoHandle]]
    /\ pc = [p \in Ports |-> "none"]
    /\ loc = [p \in Ports |-> NoLocals]
    /\ released = [p \in Ports |-> FALSE]
    /\ last = [op |-> "Init", port |-> NoPort, h |-> NoHandle, done |-> FALSE,
               n |-> 0, err |-> Nil, calls |-> <<>>, mode |-> NoMode,
               slept |-> 0, stale |-> FALSE]

Next ==
    \/ OpenPort
    \/ \E p \in Ports : Close(p)
    \/ \E p \in Ports, mode \in Modes, c \in Answers(2) : SetMode(p, mode, c)
    \/ \E p \in Ports, len \in 0..MaxCount, n \in 0..MaxCount, c \in BOOLEAN :
           Write(p, len, n, c)
    \/ \E p \in Ports, len \in 0..MaxCount : ReadStart(p, len)
    \/ \E p \in Ports, n \in 0..MaxCount, c \in BOOLEAN : ReadAttempt(p, n, c)
    \/ \E p \in Ports, c \in [1..2 -> BOOLEAN] : ReadProbe(p, c)
    \/ \E p \in Ports, breakTime \in 0..MaxBreak, c \in BOOLEAN :
           SendBreakSet(p, breakTime, c)
    \/ \E p \in Ports, c \in BOOLEAN : SendBreakClear(p, c)
    \/ Tick

Spec == Init /\ [][Next]_vars

\* GetPortsList shares no state with the ports: it is checked on its own
NextList ==
    \E values \in Registries :
        \E c \in Answers(2 + Len(values)) : GetPortsList(values, c)

SpecList == Init /\ [][NextList]_vars

\* the Read in progress goes on (one thread makes the calls, so at most one
\* Read is in progress): its ReadFile returns (with the timeouts of lines
\* 279-285 after at most the read total timeout), and so do the probe's calls
ReadFairness ==
    WF_vars(\E p \in Ports :
               \/ \E n \in 0..MaxCount, c \in BOOLEAN : ReadAttempt(p, n, c)
               \/ \E c \in [1..2 -> BOOLEAN] : ReadProbe(p, c))

SpecFair == Spec /\ ReadFairness

(***************************************************************************)
(* Properties.  They are stated on the history of the step taken last:     *)
(* the native calls it made (last.calls), what it returned, and the        *)
(* platform's state after it.                                              *)
(***************************************************************************)
CallIdx == 1..Len(last.calls)

\* the step made native call fn and it failed
FailedCall(fn) == \E i \in CallIdx : last.calls[i].fn = fn /\ ~last.calls[i].ok

\* the step made native call fn and it succeeded
GoodCall(fn) == \E i \in CallIdx : last.calls[i].fn = fn /\ last.calls[i].ok

Made(fn) == \E i \in CallIdx : last.calls[i].fn = fn

\* a configuration call of OpenPort or SetMode failed in the step
ConfigFailed ==
    \/ FailedCall("GetCommState")
    \/ FailedCall("SetCommState")
    \/ FailedCall("SetCommTimeouts")

\* OpenPort returned, CreateFile having given it a handle
OpenedHandle == last.op = "OpenPort" /\ last.h # NoHandle

\* the native calls of an OpenPort in which every step succeeds
OpenCalls ==
    <<"CreateFile", "GetCommState", "SetCommState", "GetCommState",
      "SetCommState", "SetCommTimeouts">>

(* C1: whatever the native calls made by OpenPort after CreateFile answer   *)
(* (SetMode's two calls, the GetCommState/SetCommState of the overlay,      *)
(* SetCommTimeouts): if one of them fails OpenPort returns nil and an       *)
(* error and the handle CreateFile returned is no longer live; a port is    *)
(* returned only when all of them succeeded.                                *)
C1_OpenAllOrNothing ==
    OpenedHandle =>
        /\ ConfigFailed =>
               /\ last.port = NoPort
               /\ last.err # Nil
               /\ last.h \notin live
        /\ last.port # NoPort =>
               /\ last.err = Nil
               /\ Len(last.calls) = Len(OpenCalls)
               /\ \A i \in CallIdx :
                      last.calls[i].fn = OpenCalls[i] /\ last.calls[i].ok

\* OpenPort gave up at its last step, SetCommTimeouts, on a live handle
C1_Witness ==
    /\ OpenedHandle
    /\ FailedCall("SetCommTimeouts")
    /\ last.port = NoPort
    /\ last.h \notin live

\* the calls made on a port by its holder, other than Close
PortCalls == {"Read", "Write", "SetMode", "SendBreak"}

(* C2: once CloseHandle has been invoked through a port, every later Read,  *)
(* Write, SetMode and SendBreak on it returns an error and makes no native  *)
(* call on a live handle.                                                   *)
C2_NoUseAfterRelease ==
    (last.op \in PortCalls /\ last.stale) =>
        /\ last.done => last.err # Nil
        /\ \A i \in CallIdx : ~last.calls[i].live

\* the probe of a Read was made in the step and both its calls succeeded
ProbeSucceeded ==
    /\ last.op = "Read"
    /\ GoodCall("GetCommState")
    /\ GoodCall("SetCommState")

(* C3: a Read that returns a nil error returns a count above 0; a read      *)
(* attempt that succeeds with 0 bytes goes on to the probe, and a probe     *)
(* that succeeds goes on to another read attempt: neither step returns.     *)
C3_ReadNeverZeroNil ==
    /\ [](last.op = "Read" /\ last.done /\ last.err = Nil => last.n > 0)
    /\ [][\A p \in Ports :
            /\ (pc[p] = "read" /\ last'.port = p /\ last'.op = "Read"
                  /\ GoodCall("ReadFile")' /\ last'.n = 0)
                   => (pc'[p] = "probe" /\ ~last'.done)
            /\ (pc[p] = "probe" /\ last'.port = p /\ ProbeSucceeded')
                   => (pc'[p] = "read" /\ ~last'.done)]_vars

\* an idle attempt was followed by a successful probe, and the Read is at
\* its next attempt
C3_Witness ==
    /\ ProbeSucceeded
    /\ ~last.done
    /\ pc[last.port] = "read"

InvalidConfiguration == "ERROR_INVALID_CONFIGURATION"

\* SetMode or OpenPort returned because a configuration call failed
ConfigFailure == last.op \in {"SetMode", "OpenPort"} /\ ConfigFailed

\* SendBreak returned because SetCommBreak or ClearCommBreak failed
BreakFailure ==
    last.op = "SendBreak" /\ (FailedCall("SetCommBreak") \/ FailedCall("ClearCommBreak"))

(* C5 as claimed: a failed read or write of the control record in SetMode   *)
(* or OpenPort closes the handle and returns InvalidConfiguration, a kind   *)
(* other than the one a failed SendBreak returns.                           *)
C5_InvalidConfiguration ==
    ConfigFailure =>
        /\ last.h \notin live
        /\ last.err = SerialPortError(InvalidConfiguration)
        /\ last.err # SendBreakError

(* C5: a failed read or write of the control record in SetMode, or a failed *)
(* configuration step of OpenPort, closes the handle and returns the code   *)
(* ERROR_INVALID_SERIAL_PORT, the same a failed SendBreak returns.          *)
C5_InvalidSerialPort ==
    /\ ConfigFailure =>
           /\ Made("CloseHandle")
           /\ last.h \notin live
           /\ last.err = SerialPortError(ERROR_INVALID_SERIAL_PORT)
    /\ BreakFailure => last.err = SerialPortError(ERROR_INVALID_SERIAL_PORT)

\* SetMode failed to write the record of a live handle
C5_Witness ==
    /\ last.op = "SetMode"
    /\ FailedCall("SetCommState")
    /\ last.calls[2].live
    /\ last.h \notin live

\* the value of a uint32 below 2^31
IntOf(u) == u.hi * 65536 + u.lo

\* SetMode or OpenPort succeeded with mode last.mode on handle last.h
ModeSet ==
    /\ last.op \in {"SetMode", "OpenPort"}
    /\ last.port # NoPort
    /\ last.err = Nil

(* C6 as claimed: after a successful SetMode or OpenPort the record has     *)
(* baud rate 9600 if mode.BaudRate is 0 and mode.BaudRate otherwise, byte   *)
(* size 8 if mode.DataBits is 0 and mode.DataBits otherwise, and stop-bit   *)
(* and parity codes mode.StopBits and mode.Parity.                          *)
C6_ModeFieldsExact ==
    ModeSet =>
        LET m == last.mode
            d == dcb[last.h]
        IN  /\ IntOf(d.BaudRate) = IF m.BaudRate = 0 THEN 9600 ELSE m.BaudRate
            /\ d.ByteSize = IF m.DataBits = 0 THEN 8 ELSE m.DataBits
            /\ d.StopBits = m.StopBits
            /\ d.Parity = m.Parity

(* C6: after a successful SetMode or OpenPort the record has baud rate 9600 *)
(* if mode.BaudRate is 0 and mode.BaudRate cut to 32 bits otherwise, byte   *)
(* size 8 if mode.DataBits is 0 and mode.DataBits cut to 8 bits otherwise,  *)
(* and stop-bit and parity codes mode.StopBits and mode.Parity cut to 8     *)
(* bits; after OpenPort this is the record left by the overlay.             *)
C6_ModeFieldsTruncated ==
    ModeSet =>
        LET m == last.mode
            d == dcb[last.h]
        IN  /\ d.BaudRate = IF m.BaudRate = 0 THEN U32(9600) ELSE U32(m.BaudRate)
            /\ d.ByteSize = IF m.DataBits = 0 THEN 8 ELSE m.DataBits % 256
            /\ d.StopBits = m.StopBits % 256
            /\ d.Parity = m.Parity % 256

\* OpenPort succeeded with the all-default mode: 9600 baud, 8 data bits
C6_Witness ==
    /\ ModeSet
    /\ last.op = "OpenPort"
    /\ last.mode.BaudRate = 0
    /\ last.mode.DataBits = 0
    /\ IntOf(dcb[last.h].BaudRate) = 9600
    /\ dcb[last.h].ByteSize = 8
    /\ dcb[last.h].XonLim = 2048

\* OpenPort returned a port
OpenSucceeded == last.op = "OpenPort" /\ last.port # NoPort

(* C7: after every successful OpenPort, whatever the flag word was before,  *)
(* the DTR and RTS control fields both hold exactly "enabled", the CTS and  *)
(* DSR output flow-control bits are 0, and XonLim = 2048, XoffLim = 512,    *)
(* XonChar = 0x11, XoffChar = 0x13.                                         *)
C7_FlagPolicy ==
    OpenSucceeded =>
        LET d == dcb[last.h]
        IN  /\ DtrField(d.Flags) = DCB_DTR_CONTROL_ENABLE
            /\ RtsField(d.Flags) = DCB_RTS_CONTROL_ENABLE
            /\ BitAnd(d.Flags, DCB_OUT_X_CTS_FLOW) = 0
            /\ BitAnd(d.Flags, DCB_OUT_X_DSR_FLOW) = 0
            /\ d.XonLim = 2048
            /\ d.XoffLim = 512
            /\ d.XonChar = 17
            /\ d.XoffChar = 19

\* OpenPort returned because CreateFile failed
CreateFailed == last.op = "OpenPort" /\ FailedCall("CreateFile")

(* C8: when CreateFile fails, OpenPort returns no port, no handle exists    *)
(* and none is closed; the error is ERROR_PORT_BUSY for access-denied,      *)
(* ERROR_PORT_NOT_FOUND for file-not-found, and the platform error itself   *)
(* in every other case.                                                     *)
C8_OpenFailure ==
    CreateFailed =>
        LET e == last.calls[1].errno
        IN  /\ last.port = NoPort
            /\ last.h = NoHandle
            /\ ~Made("CloseHandle")
            /\ Len(last.calls) = 1
            /\ e = ERROR_ACCESS_DENIED => last.err = SerialPortError(ERROR_PORT_BUSY)
            /\ e = ERROR_FILE_NOT_FOUND => last.err = SerialPortError(ERROR_PORT_NOT_FOUND)
            /\ e \notin {ERROR_ACCESS_DENIED, ERROR_FILE_NOT_FOUND} => last.err = Errno(e)

\* CreateFile failed with access-denied and OpenPort returned ERROR_PORT_BUSY
C8_Witness ==
    /\ CreateFailed
    /\ last.calls[1].errno = ERROR_ACCESS_DENIED
    /\ last.err = SerialPortError(ERROR_PORT_BUSY)

(* C9: SendBreak returns nil only after both SetCommBreak and               *)
(* ClearCommBreak succeeded; if SetCommBreak fails the handle is closed,    *)
(* ERROR_INVALID_SERIAL_PORT is returned and neither the sleep nor the      *)
(* clear happens; if ClearCommBreak fails the handle is closed and          *)
(* ERROR_INVALID_SERIAL_PORT is returned.                                   *)
C9_SendBreakResult ==
    /\ [](last.op = "SendBreak" =>
            /\ FailedCall("SetCommBreak") =>
                   /\ last.done
                   /\ last.err = SerialPortError(ERROR_INVALID_SERIAL_PORT)
                   /\ Made("CloseHandle")
                   /\ last.h \notin live
                   /\ ~Made("ClearCommBreak")
                   /\ pc[last.port] # "sleep"
                   /\ last.slept = 0
            /\ FailedCall("ClearCommBreak") =>
                   /\ last.done
                   /\ last.err = SerialPortError(ERROR_INVALID_SERIAL_PORT)
                   /\ Made("CloseHandle")
                   /\ last.h \notin live
            /\ (last.done /\ last.err = Nil) => GoodCall("ClearCommBreak"))
    /\ [][\A p \in Ports :
            /\ (last'.op = "SendBreak" /\ last'.port = p /\ last'.done
                  /\ last'.err = Nil) => pc[p] = "sleep"
            /\ (pc[p] # "sleep" /\ pc'[p] = "sleep")
                   => (last'.op = "SendBreak" /\ last'.port = p
                         /\ GoodCall("SetCommBreak")')]_vars

\* the break was set, and clearing it failed on a live handle
C9_Witness ==
    /\ last.op = "SendBreak"
    /\ FailedCall("ClearCommBreak")
    /\ last.calls[1].live
    /\ last.h \notin live

\* the number of ClearCommBreak calls in the step taken last
Clears == Cardinality({i \in CallIdx : last.calls[i].fn = "ClearCommBreak"})

ListReturned == last.op = "GetPortsList"

\* t is the text of the data v: the code units of v before its first NUL
TextOf(t, v) ==
    /\ Len(t) <= Len(v)
    /\ \A j \in 1..Len(t) : t[j] = v[j] /\ t[j] # 0
    /\ Len(t) < Len(v) => v[Len(t) + 1] = 0

(* C11: GetPortsList returns either a nil error with a list that has       *)
(* exactly one entry for every value the key holds (entry i the text of    *)
(* value i), every registry call having succeeded, or the nil list with    *)
(* the error ERROR_ENUMERATING_PORTS, some registry call (the key open,    *)
(* the info query or the enumeration at some index) having failed; never   *)
(* a partly filled list.                                                   *)
C11_ListAllOrNothing ==
    ListReturned =>
        \/ /\ last.err = Nil
           /\ ~last.list.nil
           /\ Len(last.list.items) = Len(last.values)
           /\ \A i \in 1..Len(last.values) :
                  TextOf(last.list.items[i], last.values[i])
           /\ \A i \in CallIdx : last.calls[i].ok
           /\ GoodCall("RegOpenKeyEx") /\ GoodCall("RegQueryInfoKey")
        \/ /\ last.err = SerialPortError(ERROR_ENUMERATING_PORTS)
           /\ last.list = NilList
           /\ \E i \in CallIdx : ~last.calls[i].ok

\* the enumeration failed at an index after the first, MaxValues - 1 entries
\* being already in the list, and the nil list was returned
C11_Witness ==
    /\ ListReturned
    /\ \E i \in CallIdx :
           /\ last.calls[i].fn = "RegEnumValue"
           /\ last.calls[i].index = MaxValues - 1
           /\ ~last.calls[i].ok
    /\ last.list.nil

\* the native write calls of the step taken last
Writes == {i \in CallIdx : last.calls[i].fn = "WriteFile"}

(* C12: a Write makes exactly one native call, a WriteFile on the port's    *)
(* handle value; it returns the count that call stored and the error that  *)
(* call returned (nil if it succeeded), also when fewer bytes were written  *)
(* than the buffer holds; no handle is closed or opened by it, and every    *)
(* port's state is as it was.                                               *)
C12_WriteOnce ==
    [][last'.op = "Write" =>
          /\ Len(last'.calls) = 1
          /\ last'.calls[1].fn = "WriteFile"
          /\ last'.calls[1].h = port[last'.port].handle
          /\ last'.done
          /\ last'.n = last'.calls[1].count
          /\ last'.err = IF last'.calls[1].ok THEN Nil
                         ELSE Errno(last'.calls[1].errno)
          /\ live' = live /\ dev' = dev /\ dcb' = dcb /\ tmo' = tmo
          /\ port' = port /\ pc' = pc /\ released' = released]_vars

\* a short write: fewer bytes were accepted than the buffer holds, and Write
\* returned after its one call
C12_Witness ==
    /\ last.op = "Write"
    /\ Cardinality(Writes) = 1
    /\ last.calls[1].ok
    /\ last.calls[1].len = MaxCount
    /\ last.n < MaxCount
    /\ last.h \in live

\* the CloseHandle calls of the step taken last
Closes == {i \in CallIdx : last.calls[i].fn = "CloseHandle"}

(* C13: the handle of a port is released at most once: no step calls        *)
(* CloseHandle twice, and no step calls CloseHandle through a port through *)
(* which CloseHandle was called before (last.stale).                       *)
C13_ReleasedOnce ==
    /\ Cardinality(Closes) <= 1
    /\ last.stale => Closes = {}

(* C14: a probe of Read that is judged successful (the Read goes on to the *)
(* next read attempt) leaves the control record of the device as it was    *)
(* before the probe.                                                       *)
C14_ProbeKeepsRecord ==
    [][\A p \in Ports :
         (pc[p] = "probe" /\ pc'[p] = "read") =>
             dcb'[port[p].handle] = dcb[port[p].handle]]_vars

(* C15: when the ReadFile of a read attempt fails, Read returns in that     *)
(* step, with the error of the ReadFile: the step makes no other native    *)
(* call (no second ReadFile, no probe, no CloseHandle), and the live       *)
(* handles, the devices' records and the ports' released marks are as they *)
(* were before it.                                                         *)
C15_ReadFailureReturns ==
    [][\A p \in Ports :
         (pc[p] = "read" /\ last'.op = "Read" /\ last'.port = p
            /\ FailedCall("ReadFile")') =>
             /\ last'.done
             /\ pc'[p] = "idle"
             /\ Len(last'.calls) = 1
             /\ last'.err = Errno(last'.calls[1].errno)
             /\ last'.err # Nil
             /\ live' = live /\ dev' = dev /\ dcb' = dcb /\ tmo' = tmo
             /\ port' = port /\ released' = released]_vars

\* a read attempt on a live handle failed; Read has returned and the handle
\* is still live
C15_Witness ==
    /\ last.op = "Read"
    /\ last.done
    /\ FailedCall("ReadFile")
    /\ last.calls[1].live
    /\ last.h \in live

\* a Read is in progress on p
InRead(p) == pc[p] \in {"read", "probe"}

\* the step taken last was a pass of Read's loop that ends the Read: an
\* attempt that yielded data, an attempt that failed, or a probe judged
\* failed (its SetCommState failed)
ReadEvent ==
    /\ last.op = "Read"
    /\ \/ GoodCall("ReadFile") /\ last.n > 0
       \/ FailedCall("ReadFile")
       \/ FailedCall("SetCommState")

ClaimedTimeouts(t) ==
    /\ t.ReadIntervalTimeout = [hi |-> 65535, lo |-> 65535]
    /\ t.ReadTotalTimeoutMultiplier = [hi |-> 65535, lo |-> 65535]
    /\ t.ReadTotalTimeoutConstant = [hi |-> 0, lo |-> 1000]
    /\ t.WriteTotalTimeoutConstant = [hi |-> 0, lo |-> 0]
    /\ t.WriteTotalTimeoutMultiplier = [hi |-> 0, lo |-> 0]

(* C17: after a successful OpenPort the timeout record of the handle has    *)
(* read interval timeout and read total timeout multiplier 0xFFFFFFFF, read *)
(* total timeout constant 1000 and both write timeouts 0; every handle that *)
(* is open holds this record, and no step of Read, Write, SetMode or        *)
(* SendBreak changes the timeout record of a handle it leaves open.         *)
C17_Timeouts ==
    /\ [](OpenSucceeded => (last.h \in live /\ ClaimedTimeouts(tmo[last.h])))
    /\ [](\A h \in live : ClaimedTimeouts(tmo[h]))
    /\ [][last'.op \in PortCalls =>
             \A h \in live' : h \in live /\ tmo'[h] = tmo[h]]_vars

\* a port was opened, and a Read, a Write, a SetMode or a SendBreak has since
\* returned without error on the handle, which is still open
C17_Witness ==
    /\ last.op \in PortCalls
    /\ last.done
    /\ last.err = Nil
    /\ last.h \in live
    /\ ClaimedTimeouts(tmo[last.h])

\* the fields of a control record that SetMode does not assign
KeptFields == {"DCBlength", "Flags", "XonLim", "XoffLim", "XonChar", "XoffChar"}

(* C18: a successful SetMode changes nothing of the device's control record *)
(* but the baud rate, the byte size, the stop-bit code and the parity code: *)
(* the flag word and the XON/XOFF limits and characters are after the step  *)
(* what they were before it (after OpenPort: what OpenPort set), and no     *)
(* other handle's record changes.                                           *)
C18_SetModeFrame ==
    [][(last'.op = "SetMode" /\ last'.err = Nil) =>
          /\ last'.h \in live /\ last'.h \in live'
          /\ \A f \in KeptFields : dcb'[last'.h][f] = dcb[last'.h][f]
          /\ \A h \in Handles \ {last'.h} : dcb'[h] = dcb[h]]_vars

\* a SetMode to 115200 baud succeeded on a handle whose record still has the
\* XON/XOFF settings and the flags of OpenPort's overlay
C18_Witness ==
    /\ last.op = "SetMode"
    /\ last.err = Nil
    /\ last.mode.BaudRate = 115200
    /\ dcb[last.h].BaudRate = [hi |-> 1, lo |-> 49664]
    /\ dcb[last.h].XonLim = 2048 /\ dcb[last.h].XoffLim = 512
    /\ dcb[last.h].XonChar = 17 /\ dcb[last.h].XoffChar = 19
    /\ BitAnd(dcb[last.h].Flags, DCB_TX_CONTINUE_ON_XOFF) = DCB_TX_CONTINUE_ON_XOFF

\* the step taken last was a Close of p's handle, which was open, made while
\* a Read on p is in its loop
ClosedInRead(p) ==
    /\ last.op = "Close" /\ last.port = p
    /\ last.calls[1].ok
    /\ InRead(p)

(* C19: when a port is closed while a Read on it is in its loop, the Read   *)
(* does not go on forever: it returns a non-nil error.                      *)
C19_CloseEndsRead ==
    \A p \in Ports :
        ClosedInRead(p) ~>
            (last.op = "Read" /\ last.port = p /\ last.done /\ last.err # Nil)

====
